---- MODULE Spec2Model ----
(***************************************************************************)
(* Task store of the renovation planner: the file backend (data.py), the   *)
(* relational backend (db.py), the backend selection (config_manager.py,   *)
(* app.py) and the migration (db.migrate_from_json, migration.py).         *)
(*                                                                         *)
(* Conventions.                                                            *)
(*  - A Python dict is a sequence of entries in insertion order.           *)
(*  - A task dict of the file backend is a record whose optional keys      *)
(*    date_debut / date_fin are present or absent in its DOMAIN.           *)
(*  - A datetime is an integer number of hundredths of a day; a duration   *)
(*    in days is an integer number of hundredths (the application rounds   *)
(*    durations to two decimals), so timedelta(days=d) is d.               *)
(*  - An ISO-8601 text is the pair <<date part, time part>>.               *)
(*  - A SQL table is the sequence of its rows in ascending id; NULL is     *)
(*    the empty tuple.                                                     *)
(*  - A return value is "True", "False", or the name of the exception      *)
(*    that left the function.                                              *)
(***************************************************************************)
EXTENDS Integers, Sequences, FiniteSets, TLC

----------------------------------------------------------------------------
(* Bounds and input sets *)

MaxTasks == 2

DefaultZoneNames == <<"Palier", "Cuisine/Sejour", "Escalier", "Cuisine">>

ZonesIn == {"Cuisine", "Garage"}
Titles == {"Peinture", "Carrelage"}
Statuts == {"A faire", "Termine"}
Priorites == {"Elevee"}
Durees == {12, 100}
Starts == {250}
\* an optional argument or value is None or <<v>>; SQL NULL and pandas NaT likewise
None == <<>>
NULL == <<>>
NaT == <<>>
DureesOpt == {None} \cup {<<d>> : d \in Durees}

----------------------------------------------------------------------------
(* Conversions *)

isoformat(dt) == <<dt \div 100, dt % 100>>

fromisoformat(s) == s[1] * 100 + s[2]

timedelta(days) == days

\* pandas.to_datetime on a TEXT column value: NULL becomes NaT
to_datetime(col) == IF col = NULL THEN NaT ELSE <<col[1] * 100 + col[2]>>

----------------------------------------------------------------------------
(* Python dict of zone -> list of task dicts *)

EMPTY_TRAVAUX_literal ==
    [i \in 1..Len(DefaultZoneNames) |-> [zone |-> DefaultZoneNames[i], taches |-> <<>>]]

HasZone(T, zone) == \E i \in 1..Len(T) : T[i].zone = zone

ZoneIdx(T, zone) == CHOOSE i \in 1..Len(T) : T[i].zone = zone

TachesOf(T, zone) == T[ZoneIdx(T, zone)].taches

SetTaches(T, zone, l) == [T EXCEPT ![ZoneIdx(T, zone)].taches = l]

\* index of the first task of list l titled titre, 0 when there is none
FindTitre(l, titre) ==
    IF \E i \in 1..Len(l) : l[i].titre = titre
    THEN CHOOSE i \in 1..Len(l) :
            /\ l[i].titre = titre
            /\ \A j \in 1..(i - 1) : l[j].titre # titre
    ELSE 0

HasKey(tache, k) == k \in DOMAIN tache

\* tache[k] = v, adding the key when it is absent
SetKey(tache, k, v) ==
    [x \in (DOMAIN tache) \cup {k} |-> IF x = k THEN v ELSE tache[x]]

\* del tache[k]
DelKey(tache, k) == [x \in (DOMAIN tache) \ {k} |-> tache[x]]

RemoveAt(l, i) == [j \in 1..(Len(l) - 1) |-> IF j < i THEN l[j] ELSE l[j + 1]]

NbTasks(T) ==
    LET RECURSIVE sum(_)
        sum(i) == IF i = 0 THEN 0 ELSE Len(T[i].taches) + sum(i - 1)
    IN sum(Len(T))

----------------------------------------------------------------------------
(* File backend, data.py.  Every operation maps the dict TRAVAUX to the     *)
(* value it returns, the dict afterwards and whether save_data() ran.       *)

Res(r, T, s) == [ret |-> r, T |-> T, saved |-> s]

\* save_data writing the dates without the time of day
Serialize_DateOnly(T) ==
    [i \in 1..Len(T) |->
        [zone |-> T[i].zone,
         taches |-> [j \in 1..Len(T[i].taches) |->
            LET tache == T[i].taches[j]
                c1 == IF HasKey(tache, "date_debut")
                      THEN SetKey(tache, "date_debut", <<tache.date_debut \div 100, 0>>)
                      ELSE tache
            IN IF HasKey(c1, "date_fin")
               THEN SetKey(c1, "date_fin", <<c1.date_fin \div 100, 0>>)
               ELSE c1]]]

\* save_data: what json.dump writes for a dict
Serialize(T) ==
    [i \in 1..Len(T) |->
        [zone |-> T[i].zone,
         taches |-> [j \in 1..Len(T[i].taches) |->
            LET tache == T[i].taches[j]
                c1 == IF HasKey(tache, "date_debut")
                      THEN SetKey(tache, "date_debut", isoformat(tache.date_debut))
                      ELSE tache
            IN IF HasKey(c1, "date_fin")
               THEN SetKey(c1, "date_fin", isoformat(c1.date_fin))
               ELSE c1]]]

\* load_data: the dict built from a parsed document
Deserialize(doc) ==
    [i \in 1..Len(doc) |->
        [zone |-> doc[i].zone,
         taches |-> [j \in 1..Len(doc[i].taches) |->
            LET tache == doc[i].taches[j]
                c1 == IF HasKey(tache, "date_debut")
                      THEN SetKey(tache, "date_debut", fromisoformat(tache.date_debut))
                      ELSE tache
            IN IF HasKey(c1, "date_fin")
               THEN SetKey(c1, "date_fin", fromisoformat(c1.date_fin))
               ELSE c1]]]

\* data_update_task_status without the call of save_data
data_update_task_status_NoSave(T, zone, task_title, new_status) ==
    IF ~HasZone(T, zone) THEN Res("KeyError", T, FALSE)
    ELSE LET l == TachesOf(T, zone)
             i == FindTitre(l, task_title)
         IN IF i = 0 THEN Res("False", T, FALSE)
            ELSE Res("True",
                     SetTaches(T, zone, [l EXCEPT ![i] = SetKey(l[i], "statut", new_status)]),
                     FALSE)


data_update_task_status(T, zone, task_title, new_status) ==
    IF ~HasZone(T, zone) THEN Res("KeyError", T, FALSE)
    ELSE LET l == TachesOf(T, zone)
             i == FindTitre(l, task_title)
         IN IF i = 0 THEN Res("False", T, FALSE)
            ELSE Res("True",
                     SetTaches(T, zone, [l EXCEPT ![i] = SetKey(l[i], "statut", new_status)]),
                     TRUE)

\* data_schedule_task computing the end from the duration stored before the call
data_schedule_task_StaleDuration(T, zone, task_title, start_date, custom_duration) ==
    IF ~HasZone(T, zone) THEN Res("KeyError", T, FALSE)
    ELSE LET l == TachesOf(T, zone)
             i == FindTitre(l, task_title)
         IN IF i = 0 THEN Res("False", T, FALSE)
            ELSE LET t1 == SetKey(l[i], "date_debut", start_date)
                     t2 == IF custom_duration # None
                           THEN SetKey(t1, "duree_estimee", custom_duration[1])
                           ELSE t1
                     t3 == SetKey(t2, "date_fin", start_date + timedelta(l[i].duree_estimee))
                 IN Res("True", SetTaches(T, zone, [l EXCEPT ![i] = t3]), TRUE)

data_schedule_task(T, zone, task_title, start_date, custom_duration) ==
    IF ~HasZone(T, zone) THEN Res("KeyError", T, FALSE)
    ELSE LET l == TachesOf(T, zone)
             i == FindTitre(l, task_title)
         IN IF i = 0 THEN Res("False", T, FALSE)
            ELSE LET t1 == SetKey(l[i], "date_debut", start_date)
                     duration == IF custom_duration # None THEN custom_duration[1]
                                 ELSE t1.duree_estimee
                     t2 == IF custom_duration # None
                           THEN SetKey(t1, "duree_estimee", custom_duration[1])
                           ELSE t1
                     end_date == start_date + timedelta(duration)
                     t3 == SetKey(t2, "date_fin", end_date)
                 IN Res("True", SetTaches(T, zone, [l EXCEPT ![i] = t3]), TRUE)

\* data_unschedule_task deleting date_debut only
data_unschedule_task_StartOnly(T, zone, task_title) ==
    IF ~HasZone(T, zone) THEN Res("KeyError", T, FALSE)
    ELSE LET l == TachesOf(T, zone)
             i == FindTitre(l, task_title)
         IN IF i = 0 THEN Res("False", T, FALSE)
            ELSE LET t1 == IF HasKey(l[i], "date_debut") THEN DelKey(l[i], "date_debut")
                           ELSE l[i]
                 IN Res("True", SetTaches(T, zone, [l EXCEPT ![i] = t1]), TRUE)

data_unschedule_task(T, zone, task_title) ==
    IF ~HasZone(T, zone) THEN Res("KeyError", T, FALSE)
    ELSE LET l == TachesOf(T, zone)
             i == FindTitre(l, task_title)
         IN IF i = 0 THEN Res("False", T, FALSE)
            ELSE LET t1 == IF HasKey(l[i], "date_debut") THEN DelKey(l[i], "date_debut")
                           ELSE l[i]
                     t2 == IF HasKey(t1, "date_fin") THEN DelKey(t1, "date_fin") ELSE t1
                 IN Res("True", SetTaches(T, zone, [l EXCEPT ![i] = t2]), TRUE)

\* data_add_task creating the key when the zone is not in TRAVAUX
data_add_task_CreatesZone(T, zone, titre, priorite, duree_estimee, statut) ==
    LET nouvelle_tache == [titre |-> titre, statut |-> statut, priorite |-> priorite,
                           duree_estimee |-> duree_estimee]
    IN IF ~HasZone(T, zone)
       THEN Res("True", Append(T, [zone |-> zone, taches |-> <<nouvelle_tache>>]), TRUE)
       ELSE IF FindTitre(TachesOf(T, zone), titre) # 0 THEN Res("False", T, FALSE)
       ELSE Res("True", SetTaches(T, zone, Append(TachesOf(T, zone), nouvelle_tache)), TRUE)

\* data_add_task without the loop that looks for the title
data_add_task_NoDupCheck(T, zone, titre, priorite, duree_estimee, statut) ==
    IF ~HasZone(T, zone) THEN Res("False", T, FALSE)
    ELSE Res("True",
             SetTaches(T, zone,
                       Append(TachesOf(T, zone),
                              [titre |-> titre, statut |-> statut, priorite |-> priorite,
                               duree_estimee |-> duree_estimee])),
             TRUE)

data_add_task(T, zone, titre, priorite, duree_estimee, statut) ==
    IF ~HasZone(T, zone) THEN Res("False", T, FALSE)
    ELSE LET l == TachesOf(T, zone)
         IN IF FindTitre(l, titre) # 0 THEN Res("False", T, FALSE)
            ELSE LET nouvelle_tache == [titre |-> titre, statut |-> statut,
                                        priorite |-> priorite,
                                        duree_estimee |-> duree_estimee]
                 IN Res("True", SetTaches(T, zone, Append(l, nouvelle_tache)), TRUE)

data_delete_task(T, zone, task_title) ==
    IF ~HasZone(T, zone) THEN Res("False", T, FALSE)
    ELSE LET l == TachesOf(T, zone)
             i == FindTitre(l, task_title)
         IN IF i = 0 THEN Res("False", T, FALSE)
            ELSE Res("True", SetTaches(T, zone, RemoveAt(l, i)), TRUE)

\* TRAVAUX = EMPTY_TRAVAUX.copy(): a new dict whose values are the very list
\* objects of EMPTY_TRAVAUX, with whatever they hold at that time
data_reset_to_empty(E) == Res("True", E, TRUE)

(* Queries of the file backend.  A row of a DataFrame is <<zone, titre,    *)
(* statut, priorite, duree_estimee, date_debut, date_fin>>, a date being   *)
(* <<datetime>> or NaT.                                                    *)

DataRow(zone, tache) ==
    <<zone, tache.titre, tache.statut, tache.priorite, tache.duree_estimee,
      IF HasKey(tache, "date_debut") THEN <<tache.date_debut>> ELSE NaT,
      IF HasKey(tache, "date_fin") THEN <<tache.date_fin>> ELSE NaT>>

data_get_all_tasks(T) ==
    LET RECURSIVE rows(_)
        rows(i) == IF i = 0 THEN <<>>
                   ELSE rows(i - 1) \o
                        [j \in 1..Len(T[i].taches) |-> DataRow(T[i].zone, T[i].taches[j])]
    IN rows(Len(T))

data_get_tasks_by_zone(T, zone) ==
    IF HasZone(T, zone)
    THEN [j \in 1..Len(TachesOf(T, zone)) |-> DataRow(zone, TachesOf(T, zone)[j])]
    ELSE <<>>

data_get_zones(T) == [i \in 1..Len(T) |-> T[i].zone]

data_count_tasks_by_zone(T) ==
    {<<T[i].zone, Len(T[i].taches)>> : i \in 1..Len(T)}

data_get_scheduled_tasks(T) ==
    LET RECURSIVE rows(_)
        rows(i) == IF i = 0 THEN <<>>
                   ELSE rows(i - 1) \o
                        [j \in 1..Len(SelectSeq(T[i].taches,
                                 LAMBDA t : HasKey(t, "date_debut") /\ HasKey(t, "date_fin"))) |->
                           DataRow(T[i].zone,
                                   SelectSeq(T[i].taches,
                                       LAMBDA t : HasKey(t, "date_debut")
                                                  /\ HasKey(t, "date_fin"))[j])]
    IN rows(Len(T))

----------------------------------------------------------------------------
(* Relational backend, db.py.  db is [zones, taches]: zones is the sequence *)
(* of the names in ascending id (the id of a zone is its position, zones    *)
(* are never deleted), taches the sequence of the rows in ascending id.     *)

DbRes(r, db) == [ret |-> r, db |-> db]

\* SELECT id FROM zones WHERE nom = ?  (0: no row)
ZoneId(db, nom) ==
    IF \E i \in 1..Len(db.zones) : db.zones[i] = nom
    THEN CHOOSE i \in 1..Len(db.zones) : db.zones[i] = nom
    ELSE 0

\* WHERE titre = ? AND zone_id = (SELECT id FROM zones WHERE nom = ?)
Matches(db, row, zone, task_title) ==
    /\ ZoneId(db, zone) # 0
    /\ row.zone_id = ZoneId(db, zone)
    /\ row.titre = task_title

RowCount(db, zone, task_title) ==
    Cardinality({i \in 1..Len(db.taches) : Matches(db, db.taches[i], zone, task_title)})

\* init_db inserting the default zones into a fresh zones table at every start
init_db_ResetsZones(db) == [db EXCEPT !.zones = DefaultZoneNames]

\* init_db without the insertion of the default zones
init_db_NoDefaults(db) == db


init_db(db) ==
    IF Len(db.zones) = 0 THEN [db EXCEPT !.zones = DefaultZoneNames] ELSE db

\* db_update_task_status whose UPDATE selects on the title alone
db_update_task_status_AnyZone(db, zone, task_title, new_status) ==
    DbRes(IF RowCount(db, zone, task_title) > 0 THEN "True" ELSE "False",
          [db EXCEPT !.taches =
              [i \in 1..Len(db.taches) |->
                  IF db.taches[i].titre = task_title
                  THEN [db.taches[i] EXCEPT !.statut = new_status]
                  ELSE db.taches[i]]])


db_update_task_status(db, zone, task_title, new_status) ==
    DbRes(IF RowCount(db, zone, task_title) > 0 THEN "True" ELSE "False",
          [db EXCEPT !.taches =
              [i \in 1..Len(db.taches) |->
                  IF Matches(db, db.taches[i], zone, task_title)
                  THEN [db.taches[i] EXCEPT !.statut = new_status]
                  ELSE db.taches[i]]])

\* db_schedule_task whose UPDATE does not set duree_estimee
db_schedule_task_KeepsDuration(db, zone, task_title, start_date, custom_duration) ==
    IF custom_duration = None /\ RowCount(db, zone, task_title) = 0
    THEN DbRes("False", db)
    ELSE LET duration ==
                 IF custom_duration = None
                 THEN db.taches[CHOOSE i \in 1..Len(db.taches) :
                                   Matches(db, db.taches[i], zone, task_title)].duree_estimee
                 ELSE custom_duration[1]
             end_date == start_date + timedelta(duration)
         IN DbRes(IF RowCount(db, zone, task_title) > 0 THEN "True" ELSE "False",
                  [db EXCEPT !.taches =
                      [i \in 1..Len(db.taches) |->
                          IF Matches(db, db.taches[i], zone, task_title)
                          THEN [db.taches[i] EXCEPT
                                   !.date_debut = isoformat(start_date),
                                   !.date_fin = isoformat(end_date)]
                          ELSE db.taches[i]]])


db_schedule_task(db, zone, task_title, start_date, custom_duration) ==
    IF custom_duration = None /\ RowCount(db, zone, task_title) = 0
    THEN DbRes("False", db)
    ELSE LET duration ==
                 IF custom_duration = None
                 THEN db.taches[CHOOSE i \in 1..Len(db.taches) :
                                   Matches(db, db.taches[i], zone, task_title)].duree_estimee
                 ELSE custom_duration[1]
             end_date == start_date + timedelta(duration)
         IN DbRes(IF RowCount(db, zone, task_title) > 0 THEN "True" ELSE "False",
                  [db EXCEPT !.taches =
                      [i \in 1..Len(db.taches) |->
                          IF Matches(db, db.taches[i], zone, task_title)
                          THEN [db.taches[i] EXCEPT
                                   !.date_debut = isoformat(start_date),
                                   !.date_fin = isoformat(end_date),
                                   !.duree_estimee = duration]
                          ELSE db.taches[i]]])

\* db_unschedule_task with SET date_debut = NULL only
db_unschedule_task_StartOnly(db, zone, task_title) ==
    DbRes(IF RowCount(db, zone, task_title) > 0 THEN "True" ELSE "False",
          [db EXCEPT !.taches =
              [i \in 1..Len(db.taches) |->
                  IF Matches(db, db.taches[i], zone, task_title)
                  THEN [db.taches[i] EXCEPT !.date_debut = NULL]
                  ELSE db.taches[i]]])

db_unschedule_task(db, zone, task_title) ==
    DbRes(IF RowCount(db, zone, task_title) > 0 THEN "True" ELSE "False",
          [db EXCEPT !.taches =
              [i \in 1..Len(db.taches) |->
                  IF Matches(db, db.taches[i], zone, task_title)
                  THEN [db.taches[i] EXCEPT !.date_debut = NULL, !.date_fin = NULL]
                  ELSE db.taches[i]]])

\* db_add_task on a table without UNIQUE (zone_id, titre)
db_add_task_NoUnique(db, zone, titre, priorite, duree_estimee, statut, sqlite_error) ==
    LET withZone == IF ZoneId(db, zone) = 0
                    THEN [db EXCEPT !.zones = Append(db.zones, zone)]
                    ELSE db
        zone_id == ZoneId(withZone, zone)
    IN IF sqlite_error
       THEN DbRes("False", db)
       ELSE DbRes("True",
                  [withZone EXCEPT !.taches =
                      Append(withZone.taches,
                             [zone_id |-> zone_id, titre |-> titre, statut |-> statut,
                              priorite |-> priorite, duree_estimee |-> duree_estimee,
                              date_debut |-> NULL, date_fin |-> NULL])])

\* sqlite_error: an execute of the try block raises an error other than
\* IntegrityError (lines 266-269)
db_add_task(db, zone, titre, priorite, duree_estimee, statut, sqlite_error) ==
    LET withZone == IF ZoneId(db, zone) = 0
                    THEN [db EXCEPT !.zones = Append(db.zones, zone)]
                    ELSE db
        zone_id == ZoneId(withZone, zone)
        integrityError == \E i \in 1..Len(db.taches) :
                              /\ db.taches[i].zone_id = zone_id
                              /\ db.taches[i].titre = titre
    IN IF sqlite_error \/ integrityError
       THEN DbRes("False", db)
       ELSE DbRes("True",
                  [withZone EXCEPT !.taches =
                      Append(withZone.taches,
                             [zone_id |-> zone_id, titre |-> titre, statut |-> statut,
                              priorite |-> priorite, duree_estimee |-> duree_estimee,
                              date_debut |-> NULL, date_fin |-> NULL])])

\* db_delete_task with WHERE titre = ? only
db_delete_task_AnyZone(db, zone, task_title) ==
    DbRes(IF \E i \in 1..Len(db.taches) : db.taches[i].titre = task_title
          THEN "True" ELSE "False",
          [db EXCEPT !.taches =
              SelectSeq(db.taches, LAMBDA row : row.titre # task_title)])

db_delete_task(db, zone, task_title) ==
    DbRes(IF RowCount(db, zone, task_title) > 0 THEN "True" ELSE "False",
          [db EXCEPT !.taches =
              SelectSeq(db.taches, LAMBDA row : ~Matches(db, row, zone, task_title))])

\* db_reset_to_empty that also puts the zones back to the default ones, as the
\* file backend does
db_reset_to_empty_DefaultZones(db) ==
    DbRes("True", [zones |-> DefaultZoneNames, taches |-> <<>>])

\* db_reset_to_empty with DELETE FROM zones as well
db_reset_to_empty_DropZones(db) == DbRes("True", [zones |-> <<>>, taches |-> <<>>])


db_reset_to_empty(db) == DbRes("True", [db EXCEPT !.taches = <<>>])

(* Queries of the relational backend, in the row form of the file backend  *)
(* (the id column is the position of the row).                             *)

DbRow(db, row) ==
    <<db.zones[row.zone_id], row.titre, row.statut, row.priorite, row.duree_estimee,
      to_datetime(row.date_debut), to_datetime(row.date_fin)>>

\* JOIN zones z ON t.zone_id = z.id
Joined(db) == SelectSeq(db.taches, LAMBDA row : row.zone_id \in 1..Len(db.zones))

db_get_all_tasks(db) == [i \in 1..Len(Joined(db)) |-> DbRow(db, Joined(db)[i])]

db_get_tasks_by_zone(db, zone) ==
    LET sel == SelectSeq(Joined(db), LAMBDA row : db.zones[row.zone_id] = zone)
    IN [i \in 1..Len(sel) |-> DbRow(db, sel[i])]

\* db_get_zones with ORDER BY id DESC
db_get_zones_NewestFirst(db) == [i \in 1..Len(db.zones) |-> db.zones[Len(db.zones) + 1 - i]]


db_get_zones(db) == db.zones

\* db_count_tasks_by_zone with JOIN in place of LEFT JOIN
db_count_tasks_by_zone_InnerJoin(db) ==
    {<<db.zones[z], Cardinality({i \in 1..Len(db.taches) : db.taches[i].zone_id = z})>> :
        z \in {y \in 1..Len(db.zones) : \E i \in 1..Len(db.taches) : db.taches[i].zone_id = y}}


db_count_tasks_by_zone(db) ==
    {<<db.zones[z], Cardinality({i \in 1..Len(db.taches) : db.taches[i].zone_id = z})>> :
        z \in 1..Len(db.zones)}

db_get_scheduled_tasks(db) ==
    LET sel == SelectSeq(Joined(db),
                         LAMBDA row : row.date_debut # NULL /\ row.date_fin # NULL)
    IN [i \in 1..Len(sel) |-> DbRow(db, sel[i])]

----------------------------------------------------------------------------
(* State *)

VARIABLES
    config,         \* content of .db_config: "absent", "use_sqlite=True", "use_sqlite=False"
    use_sqlite,     \* the backend app.py bound to the name data at import
    TRAVAUX,        \* data.TRAVAUX
    EMPTY_TRAVAUX,  \* data.EMPTY_TRAVAUX (its lists are mutable objects)
    shared,         \* the lists of TRAVAUX are the list objects of EMPTY_TRAVAUX
    file,           \* tasks_data.json: [state: "missing" | "ok" | "corrupt", doc]
    zones,          \* table zones of tasks.db
    taches,         \* table taches of tasks.db
    call,           \* the last call: [op, zone, titre, args]
    ret_data,       \* what the last call of data.py returned
    ret_db,         \* what the last call of db.py returned
    backup,         \* the latest tasks_data.json.bak.<time>: [state: "missing" | "ok", doc]
    report,         \* how the last run of migration.py ended
    served,         \* the module that executed the last call of the process: "data", "db", "none"
    TRAVAUX_2,      \* data.TRAVAUX of a second process running on the same data file
    confirm_reset,  \* st.session_state["confirm_reset"] of the browser session
    warned          \* history: the reset warning was shown since the last reset

vars == <<config, use_sqlite, TRAVAUX, EMPTY_TRAVAUX, shared, file, zones, taches,
          call, ret_data, ret_db, backup, report, served, TRAVAUX_2,
          confirm_reset, warned>>

NoFile == [state |-> "missing", doc |-> <<>>]

DB == [zones |-> zones, taches |-> taches]

\* args records the arguments the caller reads results against (start_date and
\* custom_duration of schedule_task)
Call(op, zone, titre, args) == [op |-> op, zone |-> zone, titre |-> titre, args |-> args]

\* config_manager.use_sqlite()
config_use_sqlite(c) == c = "use_sqlite=True"

\* load_data whose except branch leaves TRAVAUX = data as assigned at line 32
load_data_KeepsParsed(f) ==
    IF f.state \in {"ok", "corrupt"}
    THEN [T |-> Deserialize(f.doc), shared |-> FALSE, file |-> [f EXCEPT !.state = "ok"]]
    ELSE [T |-> EMPTY_TRAVAUX_literal, shared |-> TRUE,
          file |-> [state |-> "ok", doc |-> Serialize(EMPTY_TRAVAUX_literal)]]

\* data.py at import: EMPTY_TRAVAUX is the literal, then load_data()
load_data(f) ==
    IF f.state = "ok"
    THEN [T |-> Deserialize(f.doc), shared |-> FALSE, file |-> f]
    ELSE [T |-> EMPTY_TRAVAUX_literal, shared |-> TRUE,
          file |-> [state |-> "ok", doc |-> Serialize(EMPTY_TRAVAUX_literal)]]

Init ==
    /\ config \in {"absent", "use_sqlite=True"}
    /\ use_sqlite = config_use_sqlite(config)
    /\ EMPTY_TRAVAUX = EMPTY_TRAVAUX_literal
    /\ LET l == load_data(NoFile)
       IN /\ TRAVAUX = l.T
          /\ shared = l.shared
          /\ file = l.file
    /\ zones = IF use_sqlite THEN init_db([zones |-> <<>>, taches |-> <<>>]).zones ELSE <<>>
    /\ taches = <<>>
    /\ call = Call("import", "", "", <<>>)
    /\ ret_data = "None"
    /\ ret_db = "None"
    /\ backup = NoFile
    /\ report = "none"
    /\ served = "none"
    /\ TRAVAUX_2 = load_data(file).T
    /\ confirm_reset = FALSE
    /\ warned = FALSE

----------------------------------------------------------------------------
(* Calls of the presentation layer on the backend bound at import *)

\* the effect on the process of a call of data.py that mutates lists in place
DataStep(c, r) ==
    /\ TRAVAUX' = r.T
    /\ EMPTY_TRAVAUX' = IF shared THEN r.T ELSE EMPTY_TRAVAUX
    /\ file' = IF r.saved THEN [state |-> "ok", doc |-> Serialize(r.T)] ELSE file
    /\ call' = c
    /\ ret_data' = r.ret
    /\ served' = "data"
    /\ UNCHANGED <<config, use_sqlite, shared, zones, taches, ret_db, backup, report, TRAVAUX_2,
                   confirm_reset, warned>>

DbStep(c, r) ==
    /\ zones' = r.db.zones
    /\ taches' = r.db.taches
    /\ call' = c
    /\ ret_db' = r.ret
    /\ served' = "db"
    /\ UNCHANGED <<config, use_sqlite, TRAVAUX, EMPTY_TRAVAUX, shared, file, ret_data,
                   backup, report, TRAVAUX_2, confirm_reset, warned>>

Data_add_task(zone, titre, priorite, duree_estimee, statut) ==
    /\ ~use_sqlite
    /\ LET r == data_add_task(TRAVAUX, zone, titre, priorite, duree_estimee, statut)
       IN /\ r.ret = "True" => NbTasks(TRAVAUX) < MaxTasks
          /\ DataStep(Call("add_task", zone, titre, <<>>), r)

Data_update_task_status(zone, task_title, new_status) ==
    /\ ~use_sqlite
    /\ DataStep(Call("update_task_status", zone, task_title, <<new_status>>),
                data_update_task_status(TRAVAUX, zone, task_title, new_status))

Data_schedule_task(zone, task_title, start_date, custom_duration) ==
    /\ ~use_sqlite
    /\ DataStep(Call("schedule_task", zone, task_title, <<start_date, custom_duration>>),
                data_schedule_task(TRAVAUX, zone, task_title, start_date, custom_duration))

Data_unschedule_task(zone, task_title) ==
    /\ ~use_sqlite
    /\ DataStep(Call("unschedule_task", zone, task_title, <<>>),
                data_unschedule_task(TRAVAUX, zone, task_title))

Data_delete_task(zone, task_title) ==
    /\ ~use_sqlite
    /\ DataStep(Call("delete_task", zone, task_title, <<>>),
                data_delete_task(TRAVAUX, zone, task_title))

\* global TRAVAUX; TRAVAUX = EMPTY_TRAVAUX.copy(); save_data()
Data_reset_to_empty ==
    /\ ~use_sqlite
    /\ LET r == data_reset_to_empty(EMPTY_TRAVAUX)
       IN /\ TRAVAUX' = r.T
          /\ shared' = TRUE
          /\ file' = [state |-> "ok", doc |-> Serialize(r.T)]
          /\ call' = Call("reset_to_empty", "", "", <<>>)
          /\ ret_data' = r.ret
    /\ served' = "data"
    /\ UNCHANGED <<config, use_sqlite, EMPTY_TRAVAUX, zones, taches, ret_db, backup, report, TRAVAUX_2,
                   confirm_reset, warned>>

Db_add_task(zone, titre, priorite, duree_estimee, statut) ==
    /\ use_sqlite
    /\ LET r == db_add_task(DB, zone, titre, priorite, duree_estimee, statut, FALSE)
       IN /\ r.ret = "True" => Len(taches) < MaxTasks
          /\ DbStep(Call("add_task", zone, titre, <<>>), r)

Db_update_task_status(zone, task_title, new_status) ==
    /\ use_sqlite
    /\ DbStep(Call("update_task_status", zone, task_title, <<new_status>>),
              db_update_task_status(DB, zone, task_title, new_status))

Db_schedule_task(zone, task_title, start_date, custom_duration) ==
    /\ use_sqlite
    /\ DbStep(Call("schedule_task", zone, task_title, <<start_date, custom_duration>>),
              db_schedule_task(DB, zone, task_title, start_date, custom_duration))

Db_unschedule_task(zone, task_title) ==
    /\ use_sqlite
    /\ DbStep(Call("unschedule_task", zone, task_title, <<>>),
              db_unschedule_task(DB, zone, task_title))

Db_delete_task(zone, task_title) ==
    /\ use_sqlite
    /\ DbStep(Call("delete_task", zone, task_title, <<>>),
              db_delete_task(DB, zone, task_title))

Db_reset_to_empty ==
    /\ use_sqlite
    /\ DbStep(Call("reset_to_empty", "", "", <<>>), db_reset_to_empty(DB))

\* the process is started again: app.py binds the backend the flag selects,
\* data.py is imported (agenda.py imports it in both modes), db.py when selected
Restart ==
    /\ use_sqlite' = config_use_sqlite(config)
    /\ EMPTY_TRAVAUX' = EMPTY_TRAVAUX_literal
    /\ LET l == load_data(file)
       IN /\ TRAVAUX' = l.T
          /\ shared' = l.shared
          /\ file' = l.file
    /\ zones' = IF use_sqlite' THEN init_db(DB).zones ELSE zones
    /\ call' = Call("import", "", "", <<>>)
    /\ ret_data' = "None"
    /\ ret_db' = "None"
    /\ served' = "none"
    /\ confirm_reset' = FALSE
    /\ warned' = FALSE
    /\ UNCHANGED <<config, taches, backup, report, TRAVAUX_2>>

DataCalls ==
    \/ \E z \in ZonesIn, t \in Titles, p \in Priorites, d \in Durees, s \in Statuts :
          Data_add_task(z, t, p, d, s)
    \/ \E z \in ZonesIn, t \in Titles, s \in Statuts : Data_update_task_status(z, t, s)
    \/ \E z \in ZonesIn, t \in Titles, st \in Starts, d \in DureesOpt :
          Data_schedule_task(z, t, st, d)
    \/ \E z \in ZonesIn, t \in Titles : Data_unschedule_task(z, t)
    \/ \E z \in ZonesIn, t \in Titles : Data_delete_task(z, t)
    \/ Data_reset_to_empty

DbCalls ==
    \/ \E z \in ZonesIn, t \in Titles, p \in Priorites, d \in Durees, s \in Statuts :
          Db_add_task(z, t, p, d, s)
    \/ \E z \in ZonesIn, t \in Titles, s \in Statuts : Db_update_task_status(z, t, s)
    \/ \E z \in ZonesIn, t \in Titles, st \in Starts, d \in DureesOpt :
          Db_schedule_task(z, t, st, d)
    \/ \E z \in ZonesIn, t \in Titles : Db_unschedule_task(z, t)
    \/ \E z \in ZonesIn, t \in Titles : Db_delete_task(z, t)
    \/ Db_reset_to_empty

Next == DataCalls \/ DbCalls \/ Restart

Spec == Init /\ [][Next]_vars

----------------------------------------------------------------------------
(* What a caller of the bound backend observes *)

Ret == IF use_sqlite THEN ret_db ELSE ret_data

AllTasks == IF use_sqlite THEN db_get_all_tasks(DB) ELSE data_get_all_tasks(TRAVAUX)

TasksByZone(zone) ==
    IF use_sqlite THEN db_get_tasks_by_zone(DB, zone)
    ELSE data_get_tasks_by_zone(TRAVAUX, zone)

ScheduledTasks ==
    IF use_sqlite THEN db_get_scheduled_tasks(DB) ELSE data_get_scheduled_tasks(TRAVAUX)

ZoneList == IF use_sqlite THEN db_get_zones(DB) ELSE data_get_zones(TRAVAUX)

CountByZone ==
    IF use_sqlite THEN db_count_tasks_by_zone(DB) ELSE data_count_tasks_by_zone(TRAVAUX)

\* the rows of a query result for (zone, titre)
RowsOf(df, zone, titre) == SelectSeq(df, LAMBDA row : row[1] = zone /\ row[2] = titre)

Exists(zone, titre) == Len(RowsOf(AllTasks, zone, titre)) > 0

Without(df, zone, titre) == SelectSeq(df, LAMBDA row : ~(row[1] = zone /\ row[2] = titre))

StoreUnchanged ==
    /\ AllTasks' = AllTasks
    /\ ZoneList' = ZoneList
    /\ CountByZone' = CountByZone
    /\ file' = file
    /\ zones' = zones
    /\ taches' = taches

----------------------------------------------------------------------------
(* C1: add_task on a (zone, titre) that is already stored returns false and *)
(* changes nothing: the stored task keeps the values of the first call, the *)
(* store still holds exactly one task for (zone, titre), and no zone and no *)
(* task is added.  A call that returns true leaves exactly one such task.   *)
Called(op, z, t) == call.op = op /\ call.zone = z /\ call.titre = t

C1_DuplicateAddRejected ==
    [][\A z \in ZonesIn, t \in Titles :
          Called("add_task", z, t)' =>
             /\ Exists(z, t) =>
                   /\ Ret' = "False"
                   /\ StoreUnchanged
                   /\ Len(RowsOf(AllTasks', z, t)) = 1
             /\ Ret' = "True" => Len(RowsOf(AllTasks', z, t)) = 1]_vars

C1_Witness ==
    /\ use_sqlite
    /\ call.op = "add_task"
    /\ ret_db = "False"
    /\ Len(taches) = 1

(* C2: schedule_task on an existing task returns true and the task reads    *)
(* back with scheduled_start = start, scheduled_end = start + d days and    *)
(* estimated_duration = d, d being the override when one is given and the   *)
(* duration stored before the call otherwise.                               *)
C2_ScheduleReadsBack ==
    [][\A z \in ZonesIn, t \in Titles, st \in Starts, cd \in DureesOpt :
          (Called("schedule_task", z, t)' /\ call'.args = <<st, cd>> /\ Exists(z, t)) =>
             LET before == RowsOf(TasksByZone(z), z, t)[1]
                 d == IF cd = None THEN before[5] ELSE cd[1]
             IN /\ Ret' = "True"
                /\ RowsOf(TasksByZone(z)', z, t) =
                      << <<z, t, before[3], before[4], d, <<st>>, <<st + d>> >> >>]_vars

C2_Witness ==
    /\ call.op = "schedule_task"
    /\ call.args[2] # None
    /\ Ret = "True"
    /\ \E i \in 1..Len(AllTasks) :
          /\ AllTasks[i][1] = call.zone
          /\ AllTasks[i][2] = call.titre
          /\ AllTasks[i][6] = <<call.args[1]>>
          /\ AllTasks[i][7] = <<call.args[1] + call.args[2][1]>>

(* C3: no task ever has exactly one of scheduled_start and scheduled_end,   *)
(* in memory, in the persisted file or in the relational store.             *)
BothOrNeither(df) == \A i \in 1..Len(df) : (df[i][6] = NaT) <=> (df[i][7] = NaT)

C3_StartIffEnd ==
    /\ BothOrNeither(data_get_all_tasks(TRAVAUX))
    /\ BothOrNeither(db_get_all_tasks(DB))
    /\ file.state = "ok" =>
          \A i \in 1..Len(file.doc) : \A j \in 1..Len(file.doc[i].taches) :
              HasKey(file.doc[i].taches[j], "date_debut")
                  <=> HasKey(file.doc[i].taches[j], "date_fin")

C3_Witness ==
    /\ ~use_sqlite
    /\ call.op = "unschedule_task"
    /\ ret_data = "True"
    /\ Len(AllTasks) = 1
    /\ Len(ScheduledTasks) = 0

(* C4: update_task_status, schedule_task, unschedule_task and delete_task   *)
(* called for a (zone, titre) that matches no task, the zone itself being   *)
(* possibly unknown, return false and leave the store unchanged.            *)
C4_MissingTargetReturnsFalse ==
    [][\A z \in ZonesIn, t \in Titles :
          (/\ call'.op \in {"update_task_status", "schedule_task",
                            "unschedule_task", "delete_task"}
           /\ call'.zone = z
           /\ call'.titre = t
           /\ ~Exists(z, t)) =>
              (Ret' = "False" /\ StoreUnchanged)]_vars

(* C5: reset_to_empty returns true and afterwards get_all_tasks is empty    *)
(* and count_tasks_by_zone is 0 for every zone.                             *)
C5_ResetRemovesAllTasks ==
    call.op = "reset_to_empty" =>
        /\ Ret = "True"
        /\ Len(AllTasks) = 0
        /\ \A c \in CountByZone : c[2] = 0

(* C6: unschedule_task on an existing task returns true, scheduled or not;  *)
(* afterwards the task has neither date, get_scheduled_tasks does not       *)
(* contain it, its other fields are unchanged and so is every other task.   *)
C6_UnscheduleClearsBoth ==
    [][\A z \in ZonesIn, t \in Titles :
          (Called("unschedule_task", z, t)' /\ Exists(z, t)) =>
             LET before == RowsOf(TasksByZone(z), z, t)[1]
             IN /\ Ret' = "True"
                /\ RowsOf(TasksByZone(z)', z, t) =
                      << <<z, t, before[3], before[4], before[5], NaT, NaT>> >>
                /\ RowsOf(ScheduledTasks', z, t) = <<>>
                /\ Without(AllTasks', z, t) = Without(AllTasks, z, t)
                /\ ZoneList' = ZoneList]_vars

C6_Witness ==
    /\ call.op = "unschedule_task"
    /\ Ret = "True"
    /\ Len(AllTasks) = 2
    /\ Len(ScheduledTasks) = 1

(* C7: delete_task on an existing task returns true, the task is no longer  *)
(* in get_tasks_by_zone of its zone, every other task of every zone is      *)
(* unchanged; delete_task on a task that is not stored (so also a second    *)
(* delete) returns false.                                                   *)
C7_DeleteRemovesOnlyTarget ==
    [][\A z \in ZonesIn, t \in Titles :
          Called("delete_task", z, t)' =>
             IF Exists(z, t)
             THEN /\ Ret' = "True"
                  /\ RowsOf(TasksByZone(z)', z, t) = <<>>
                  /\ AllTasks' = Without(AllTasks, z, t)
                  /\ ZoneList' = ZoneList
             ELSE /\ Ret' = "False"
                  /\ AllTasks' = AllTasks]_vars

C7_Witness ==
    /\ call.op = "delete_task"
    /\ Ret = "True"
    /\ Len(AllTasks) = 1

----------------------------------------------------------------------------
(* The two backends side by side: both modules imported on a fresh          *)
(* directory (the four default zones, no task), every call made on both.    *)
(* add_task is called on zones of the default set only, so that the two     *)
(* documented divergences (add_task on an unknown zone, the zone list after *)
(* reset_to_empty once zones were added) do not arise.                      *)

KnownZonesIn == {z \in ZonesIn : \E i \in 1..Len(DefaultZoneNames) : DefaultZoneNames[i] = z}

InitLock ==
    /\ config = "absent"
    /\ use_sqlite = FALSE
    /\ EMPTY_TRAVAUX = EMPTY_TRAVAUX_literal
    /\ LET l == load_data(NoFile)
       IN /\ TRAVAUX = l.T
          /\ shared = l.shared
          /\ file = l.file
    /\ zones = init_db([zones |-> <<>>, taches |-> <<>>]).zones
    /\ taches = <<>>
    /\ call = Call("import", "", "", <<>>)
    /\ ret_data = "None"
    /\ ret_db = "None"
    /\ backup = NoFile
    /\ report = "none"
    /\ served = "none"
    /\ TRAVAUX_2 = load_data(file).T
    /\ confirm_reset = FALSE
    /\ warned = FALSE

Range(df) == {df[i] : i \in 1..Len(df)}

\* what the comparison of the two backends after a call looks at
SameResults ==
    /\ ret_data = ret_db
    /\ Range(data_get_all_tasks(TRAVAUX)) = Range(db_get_all_tasks(DB))
    /\ Range(data_get_scheduled_tasks(TRAVAUX)) = Range(db_get_scheduled_tasks(DB))
    /\ \A z \in ZonesIn :
          Range(data_get_tasks_by_zone(TRAVAUX, z)) = Range(db_get_tasks_by_zone(DB, z))
    /\ data_get_zones(TRAVAUX) = db_get_zones(DB)
    /\ data_count_tasks_by_zone(TRAVAUX) = db_count_tasks_by_zone(DB)

\* a call made on both backends; the comparison goes on as long as they agree
BothStep(c, r, q) ==
    /\ SameResults
    /\ TRAVAUX' = r.T
    /\ EMPTY_TRAVAUX' = IF shared THEN r.T ELSE EMPTY_TRAVAUX
    /\ file' = IF r.saved THEN [state |-> "ok", doc |-> Serialize(r.T)] ELSE file
    /\ ret_data' = r.ret
    /\ zones' = q.db.zones
    /\ taches' = q.db.taches
    /\ ret_db' = q.ret
    /\ call' = c
    /\ UNCHANGED <<config, use_sqlite, shared, backup, report, served, TRAVAUX_2, confirm_reset, warned>>

Both_add_task(zone, titre, priorite, duree_estimee, statut) ==
    LET r == data_add_task(TRAVAUX, zone, titre, priorite, duree_estimee, statut)
        q == db_add_task(DB, zone, titre, priorite, duree_estimee, statut, FALSE)
    IN /\ r.ret = "True" => NbTasks(TRAVAUX) < MaxTasks
       /\ q.ret = "True" => Len(taches) < MaxTasks
       /\ BothStep(Call("add_task", zone, titre, <<>>), r, q)

Both_update_task_status(zone, task_title, new_status) ==
    BothStep(Call("update_task_status", zone, task_title, <<new_status>>),
             data_update_task_status(TRAVAUX, zone, task_title, new_status),
             db_update_task_status(DB, zone, task_title, new_status))

Both_schedule_task(zone, task_title, start_date, custom_duration) ==
    BothStep(Call("schedule_task", zone, task_title, <<start_date, custom_duration>>),
             data_schedule_task(TRAVAUX, zone, task_title, start_date, custom_duration),
             db_schedule_task(DB, zone, task_title, start_date, custom_duration))

Both_unschedule_task(zone, task_title) ==
    BothStep(Call("unschedule_task", zone, task_title, <<>>),
             data_unschedule_task(TRAVAUX, zone, task_title),
             db_unschedule_task(DB, zone, task_title))

Both_delete_task(zone, task_title) ==
    BothStep(Call("delete_task", zone, task_title, <<>>),
             data_delete_task(TRAVAUX, zone, task_title),
             db_delete_task(DB, zone, task_title))

Both_reset_to_empty ==
    LET r == data_reset_to_empty(EMPTY_TRAVAUX)
        q == db_reset_to_empty(DB)
    IN /\ SameResults
       /\ TRAVAUX' = r.T
       /\ shared' = TRUE
       /\ file' = [state |-> "ok", doc |-> Serialize(r.T)]
       /\ ret_data' = r.ret
       /\ zones' = q.db.zones
       /\ taches' = q.db.taches
       /\ ret_db' = q.ret
       /\ call' = Call("reset_to_empty", "", "", <<>>)
       /\ UNCHANGED <<config, use_sqlite, EMPTY_TRAVAUX, backup, report, served, TRAVAUX_2, confirm_reset, warned>>

NextLock ==
    \/ \E z \in KnownZonesIn, t \in Titles, p \in Priorites, d \in Durees, s \in Statuts :
          Both_add_task(z, t, p, d, s)
    \/ \E z \in ZonesIn, t \in Titles, s \in Statuts : Both_update_task_status(z, t, s)
    \/ \E z \in ZonesIn, t \in Titles, st \in Starts, d \in DureesOpt :
          Both_schedule_task(z, t, st, d)
    \/ \E z \in ZonesIn, t \in Titles : Both_unschedule_task(z, t)
    \/ \E z \in ZonesIn, t \in Titles : Both_delete_task(z, t)
    \/ Both_reset_to_empty

SpecLock == InitLock /\ [][NextLock]_vars

(* C10: applied to both backends from the same initial content, every call  *)
(* returns the same value and every query returns the same tasks, zones and *)
(* counts.                                                                  *)
C10_BackendsEquivalent == SameResults

----------------------------------------------------------------------------
(* Migration: db.migrate_from_json and the script migration.py.             *)
(* A fault is what the environment makes fail during one run:               *)
(*   none      nothing                                                      *)
(*   import    import db (init_db) raises                                   *)
(*   read      open / json.load of the data file raises                     *)
(*   reset     reset_to_empty raises                                        *)
(*   add       an execute inside add_task of the at-th task raises          *)
(*   schedule  schedule_task of the at-th task raises                       *)
(*   backup    writing the backup file raises                               *)

Fault(kind, at) == [kind |-> kind, at |-> at]

FaultsIn ==
    {Fault(k, 0) : k \in {"none", "import", "read", "reset", "backup"}}
        \cup {Fault(k, n) : k \in {"add", "schedule"}, n \in 1..MaxTasks}

\* for zone, taches in data.items(): for tache in taches
Items(doc) ==
    LET RECURSIVE items(_)
        items(i) == IF i = 0 THEN <<>>
                    ELSE items(i - 1) \o
                         [j \in 1..Len(doc[i].taches) |->
                             [zone |-> doc[i].zone, tache |-> doc[i].taches[j]]]
    IN items(Len(doc))

\* the loop of migrate_from_json from the k-th task on
RECURSIVE MigrateLoop(_, _, _, _)
MigrateLoop(db, items, k, fault) ==
    IF k > Len(items) THEN DbRes("True", db)
    ELSE LET zone == items[k].zone
             tache == items[k].tache
             added == db_add_task(db, zone, tache.titre, tache.priorite,
                                  tache.duree_estimee, tache.statut,
                                  fault = Fault("add", k)).db
         IN IF HasKey(tache, "date_debut") /\ HasKey(tache, "date_fin")
            THEN IF fault = Fault("schedule", k)
                 THEN DbRes("False", added)
                 ELSE MigrateLoop(db_schedule_task(added, zone, tache.titre,
                                                   fromisoformat(tache.date_debut),
                                                   <<tache.duree_estimee>>).db,
                                  items, k + 1, fault)
            ELSE MigrateLoop(added, items, k + 1, fault)

\* migrate_from_json calling reset_to_empty before it opens the file
migrate_from_json_ResetFirst(f, db, fault) ==
    IF fault.kind = "reset" THEN DbRes("False", db)
    ELSE IF f.state # "ok" \/ fault.kind = "read"
    THEN DbRes("False", db_reset_to_empty(db).db)
    ELSE MigrateLoop(db_reset_to_empty(db).db, Items(f.doc), 1, fault)

\* migrate_from_json without the call of reset_to_empty
migrate_from_json_NoReset(f, db, fault) ==
    IF f.state # "ok" \/ fault.kind = "read" THEN DbRes("False", db)
    ELSE IF fault.kind = "reset" THEN DbRes("False", db)
    ELSE MigrateLoop(db, Items(f.doc), 1, fault)

migrate_from_json(f, db, fault) ==
    IF f.state # "ok" \/ fault.kind = "read" THEN DbRes("False", db)
    ELSE IF fault.kind = "reset" THEN DbRes("False", db)
    ELSE MigrateLoop(db_reset_to_empty(db).db, Items(f.doc), 1, fault)

MigRes(c, db, b, rep, r) == [config |-> c, db |-> db, backup |-> b, report |-> rep, ret |-> r]

\* migration.py without the test of the flag file at lines 14-18
migration_py_NoGuard(c, f, db, b, fault) ==
    IF f.state = "missing" THEN MigRes(c, db, b, "introuvable", "None")
    ELSE IF fault.kind = "import" THEN MigRes(c, db, b, "erreur", "None")
    ELSE LET m == migrate_from_json(f, init_db(db), fault)
         IN IF m.ret = "True"
            THEN IF fault.kind = "backup"
                 THEN MigRes("use_sqlite=True", m.db, b, "erreur", m.ret)
                 ELSE MigRes("use_sqlite=True", m.db, f, "reussie", m.ret)
            ELSE MigRes(c, m.db, b, "echec", m.ret)

\* migration.py writing the flag whatever migrate_from_json returned
migration_py_FlagAlways(c, f, db, b, fault) ==
    IF c = "use_sqlite=True" THEN MigRes(c, db, b, "deja_effectuee", "None")
    ELSE IF f.state = "missing" THEN MigRes(c, db, b, "introuvable", "None")
    ELSE IF fault.kind = "import" THEN MigRes(c, db, b, "erreur", "None")
    ELSE LET m == migrate_from_json(f, init_db(db), fault)
         IN IF m.ret = "True"
            THEN MigRes("use_sqlite=True", m.db, f, "reussie", m.ret)
            ELSE MigRes("use_sqlite=True", m.db, b, "echec", m.ret)

\* migration.py: the flag c, the data file f, the database, the backup b
migration_py(c, f, db, b, fault) ==
    IF c = "use_sqlite=True" THEN MigRes(c, db, b, "deja_effectuee", "None")
    ELSE IF f.state = "missing" THEN MigRes(c, db, b, "introuvable", "None")
    ELSE IF fault.kind = "import" THEN MigRes(c, db, b, "erreur", "None")
    ELSE LET m == migrate_from_json(f, init_db(db), fault)
         IN IF m.ret = "True"
            THEN IF fault.kind = "backup"
                 THEN MigRes("use_sqlite=True", m.db, b, "erreur", m.ret)
                 ELSE MigRes("use_sqlite=True", m.db, f, "reussie", m.ret)
            ELSE MigRes(c, m.db, b, "echec", m.ret)

Migration(fault) ==
    LET r == migration_py(config, file, DB, backup, fault)
    IN /\ config' = r.config
       /\ zones' = r.db.zones
       /\ taches' = r.db.taches
       /\ backup' = r.backup
       /\ report' = r.report
       /\ ret_db' = r.ret
       /\ call' = Call("migration.py", "", "", <<fault>>)
       /\ UNCHANGED <<use_sqlite, TRAVAUX, EMPTY_TRAVAUX, shared, file, ret_data, served, TRAVAUX_2,
                   confirm_reset, warned>>

(* The relational store before the migration: never created, or left by an  *)
(* earlier session in SQLite mode that the administrator ended with "Revenir *)
(* au stockage JSON" (config_manager.set_storage_mode(False)).              *)

FreshDb == init_db([zones |-> <<>>, taches |-> <<>>])

EarlierDbs ==
    {db_add_task(FreshDb, "Garage", "Peinture", "Moyenne", 100, "Termine", FALSE).db,
     db_schedule_task(
        db_add_task(FreshDb, "Cuisine", "Carrelage", "Moyenne", 100, "Termine", FALSE).db,
        "Cuisine", "Carrelage", 100, None).db}

InitMig ==
    /\ \/ /\ config = "absent"
          /\ zones = <<>>
          /\ taches = <<>>
       \/ /\ config = "use_sqlite=False"
          /\ \E db \in EarlierDbs : zones = db.zones /\ taches = db.taches
    /\ use_sqlite = config_use_sqlite(config)
    /\ EMPTY_TRAVAUX = EMPTY_TRAVAUX_literal
    /\ LET l == load_data(NoFile)
       IN /\ TRAVAUX = l.T
          /\ shared = l.shared
          /\ file = l.file
    /\ call = Call("import", "", "", <<>>)
    /\ ret_data = "None"
    /\ ret_db = "None"
    /\ backup = NoFile
    /\ report = "none"
    /\ served = "none"
    /\ TRAVAUX_2 = load_data(file).T
    /\ confirm_reset = FALSE
    /\ warned = FALSE

\* zones of the data file that receive tasks before the migration, and the
\* tasks entered there: title, status, and the duration typed when scheduling
MigZonesIn == {"Palier", "Cuisine"}

MigTasksIn ==
    {[titre |-> "Peinture", statut |-> "A faire", custom_duration |-> None],
     [titre |-> "Carrelage", statut |-> "Termine", custom_duration |-> <<12>>]}

\* the file backend is used until migration.py is run; the script runs once
\* more only to find the migration already done
NextMig ==
    \/ /\ report = "none"
       /\ \E z \in MigZonesIn, x \in MigTasksIn, p \in Priorites :
             Data_add_task(z, x.titre, p, 100, x.statut)
    \/ /\ report = "none"
       /\ \E z \in MigZonesIn, x \in MigTasksIn, st \in Starts :
             Data_schedule_task(z, x.titre, st, x.custom_duration)
    \/ /\ report = "none" \/ config_use_sqlite(config)
       /\ \E fault \in FaultsIn : Migration(fault)
    \/ Restart

SpecMig == InitMig /\ [][NextMig]_vars

----------------------------------------------------------------------------
(* Claims about the migration, checked under SpecMig *)

\* the tasks of the data file as the file backend reports them
FileTasks == Deserialize(file.doc)

\* zone, title, status, priority and estimated duration of a row
Content(row) == <<row[1], row[2], row[3], row[4], row[5]>>

\* every scheduled task of the file ends at start + estimated duration
EndsAfterDuration(df) ==
    \A i \in 1..Len(df) : df[i][7] = <<df[i][6][1] + timedelta(df[i][5])>>

\* the run of migration.py that just ended met no storage fault in the transfer
TransferUndisturbed == call.args[1].kind \in {"none", "backup"}

----------------------------------------------------------------------------
(* Claims about the store as a whole, checked under Spec *)

\* no two rows of a query result have the same zone and title
UniqueIn(df) ==
    \A i, j \in 1..Len(df) : (df[i][1] = df[j][1] /\ df[i][2] = df[j][2]) => i = j

(* C11: in every state reached from an empty store by the contract          *)
(* operations, on either backend, no two tasks have the same (zone, title): *)
(* not in the query results, not in the dict of the file backend and its    *)
(* file, not in the table taches.                                           *)
C11_UniqueZoneTitle ==
    /\ UniqueIn(AllTasks)
    /\ UniqueIn(data_get_all_tasks(TRAVAUX))
    /\ UniqueIn(data_get_all_tasks(Deserialize(file.doc)))
    /\ UniqueIn(db_get_all_tasks(DB))

\* the relational store holds two tasks and has just refused a second task
\* with a (zone, title) it holds
C11_Witness ==
    /\ use_sqlite
    /\ call.op = "add_task"
    /\ ret_db = "False"
    /\ Len(AllTasks) = MaxTasks
    /\ Exists(call.zone, call.titre)

\* save_data() followed by load_data() on the dict T
RoundTrip(T) == load_data([state |-> "ok", doc |-> Serialize(T)]).T

(* C12: round trip of the file backend.  For every reachable dict TRAVAUX,  *)
(* save_data followed by load_data gives the same zones in the same order   *)
(* with the same tasks in the same order and the same field values; the     *)
(* start and end of a scheduled task come back as the same dates and an     *)
(* unscheduled task comes back with neither date.                           *)
C12_SaveLoadRoundTrip ==
    /\ RoundTrip(TRAVAUX) = TRAVAUX
    /\ data_get_zones(RoundTrip(TRAVAUX)) = data_get_zones(TRAVAUX)
    /\ data_get_all_tasks(RoundTrip(TRAVAUX)) = data_get_all_tasks(TRAVAUX)
    /\ data_get_scheduled_tasks(RoundTrip(TRAVAUX)) = data_get_scheduled_tasks(TRAVAUX)

\* a dict read back from the file at a restart, holding a scheduled and an
\* unscheduled task
C12_Witness ==
    /\ call.op = "import"
    /\ ~shared
    /\ TRAVAUX = Deserialize(file.doc)
    /\ Len(data_get_all_tasks(TRAVAUX)) = 2
    /\ Len(data_get_scheduled_tasks(TRAVAUX)) = 1
    /\ \E r \in Range(data_get_scheduled_tasks(TRAVAUX)) : r[6] # <<(r[6][1] \div 100) * 100>>

----------------------------------------------------------------------------
(* The agenda part of the presentation layer.  agenda.py binds the name     *)
(* data with its own import statement; its calls are the calls of           *)
(* display_daily_view, schedule_task_ui and manage_scheduled_tasks.         *)

Agenda_update_task_status(zone, task_title, new_status) ==
    DataStep(Call("agenda.update_task_status", zone, task_title, <<>>),
             data_update_task_status(TRAVAUX, zone, task_title, new_status))

Agenda_schedule_task(zone, task_title, start_date, custom_duration) ==
    DataStep(Call("agenda.schedule_task", zone, task_title, <<start_date, custom_duration>>),
             data_schedule_task(TRAVAUX, zone, task_title, start_date, custom_duration))

Agenda_unschedule_task(zone, task_title) ==
    DataStep(Call("agenda.unschedule_task", zone, task_title, <<>>),
             data_unschedule_task(TRAVAUX, zone, task_title))

\* what the agenda shows: get_scheduled_tasks() and get_zones() of its module
AgendaScheduledTasks == data_get_scheduled_tasks(TRAVAUX)

AgendaZoneList == data_get_zones(TRAVAUX)

AgendaCalls ==
    \/ \E z \in ZonesIn, t \in Titles, s \in Statuts : Agenda_update_task_status(z, t, s)
    \/ \E z \in ZonesIn, t \in Titles, st \in Starts, d \in DureesOpt :
          Agenda_schedule_task(z, t, st, d)
    \/ \E z \in ZonesIn, t \in Titles : Agenda_unschedule_task(z, t)

\* the main application adds tasks, the agenda schedules them
NextAgenda ==
    \/ \E z \in ZonesIn, t \in Titles, p \in Priorites, d \in Durees, s \in Statuts :
          Data_add_task(z, t, p, d, s)
    \/ \E z \in ZonesIn, t \in Titles, p \in Priorites, d \in Durees, s \in Statuts :
          Db_add_task(z, t, p, d, s)
    \/ AgendaCalls
    \/ Restart

SpecAgenda == Init /\ [][NextAgenda]_vars

(* C13: every repository call of a process is executed by the backend that  *)
(* the flag read at the start of the process selects (db.py iff .db_config  *)
(* contained use_sqlite=True, data.py otherwise), the calls of the agenda   *)
(* included.                                                                *)
C13_CallsReachSelectedBackend ==
    served \in {"none", IF use_sqlite THEN "db" ELSE "data"}

----------------------------------------------------------------------------
(* All the core operations together: the operations of the bound backend,   *)
(* the migration script and restarts, on one task title.                    *)

OneTitle == {"Peinture"}

\* the migration goes through, or fails before it has stored anything
CoreFaultsIn == {Fault("none", 0), Fault("reset", 0)}

NextCore ==
    \/ \E z \in ZonesIn, t \in OneTitle, p \in Priorites :
          Data_add_task(z, t, p, 100, "A faire")
    \/ \E z \in ZonesIn, t \in OneTitle : Data_update_task_status(z, t, "Termine")
    \/ \E z \in ZonesIn, t \in OneTitle, st \in Starts : Data_schedule_task(z, t, st, None)
    \/ \E z \in ZonesIn, t \in OneTitle : Data_unschedule_task(z, t)
    \/ \E z \in ZonesIn, t \in OneTitle : Data_delete_task(z, t)
    \/ Data_reset_to_empty
    \/ \E z \in ZonesIn, t \in OneTitle, p \in Priorites :
          Db_add_task(z, t, p, 100, "A faire")
    \/ \E z \in ZonesIn, t \in OneTitle : Db_update_task_status(z, t, "Termine")
    \/ \E z \in ZonesIn, t \in OneTitle, st \in Starts : Db_schedule_task(z, t, st, None)
    \/ \E z \in ZonesIn, t \in OneTitle : Db_unschedule_task(z, t)
    \/ \E z \in ZonesIn, t \in OneTitle : Db_delete_task(z, t)
    \/ Db_reset_to_empty
    \/ /\ report = "none" \/ config_use_sqlite(config)
       /\ \E fault \in CoreFaultsIn : Migration(fault)
    \/ Restart

SpecCore == Init /\ [][NextCore]_vars

(* C14: zones are never deleted.  A zone name that get_zones() of the bound *)
(* backend returns is returned after every further step (add_task,          *)
(* update_task_status, schedule_task, unschedule_task, delete_task,         *)
(* reset_to_empty, the migration, a restart), hence in every later state.   *)
C14_ZonesNeverDeleted ==
    [][\A z \in Range(ZoneList) : z \in Range(ZoneList')]_vars

\* after a migration and a restart the relational store got the zone Garage
\* with a task, and reset_to_empty has just removed the task
C14_Witness ==
    /\ use_sqlite
    /\ report = "reussie"
    /\ call.op = "reset_to_empty"
    /\ Len(taches) = 0
    /\ "Garage" \in Range(ZoneList)
    /\ Len(ZoneList) = Len(DefaultZoneNames) + 1

----------------------------------------------------------------------------
(* Claims about zones that are not in the store, checked under Spec *)

(* C15: file backend.  add_task on a zone that is not a key of TRAVAUX      *)
(* returns False, creates neither the zone nor the task (the dict, the zone *)
(* list and the tasks are as before) and does not call save_data: the file  *)
(* is as before.                                                            *)
C15_FileAddUnknownZoneRejected ==
    [][\A z \in ZonesIn, t \in Titles :
          (Called("add_task", z, t)' /\ ~use_sqlite /\ ~HasZone(TRAVAUX, z))
          => /\ ret_data' = "False"
             /\ TRAVAUX' = TRAVAUX
             /\ data_get_zones(TRAVAUX') = data_get_zones(TRAVAUX)
             /\ data_get_all_tasks(TRAVAUX') = data_get_all_tasks(TRAVAUX)
             /\ ~HasZone(TRAVAUX', z)
             /\ file' = file
             /\ \A p \in Priorites, d \in Durees, s \in Statuts :
                   ~data_add_task(TRAVAUX, z, t, p, d, s).saved
      ]_vars

\* the file backend holds a task and has just refused a task for Garage
C15_Witness ==
    /\ ~use_sqlite
    /\ Called("add_task", "Garage", "Peinture")
    /\ ret_data = "False"
    /\ ~HasZone(TRAVAUX, "Garage")
    /\ ~Exists("Garage", "Peinture")
    /\ NbTasks(TRAVAUX) = 1

(* C16: relational backend.  add_task on a zone that has no row in zones    *)
(* returns True and creates the zone and the task together: get_zones() is  *)
(* the sequence it was with the new zone appended last, and the store holds *)
(* one more task, the new one for (zone, title), the others as before.      *)
C16_DbAddCreatesZone ==
    [][\A z \in ZonesIn, t \in Titles :
          (Called("add_task", z, t)' /\ use_sqlite /\ ZoneId(DB, z) = 0)
          => /\ ret_db' = "True"
             /\ db_get_zones(DB') = Append(db_get_zones(DB), z)
             /\ Len(db_get_all_tasks(DB')) = Len(db_get_all_tasks(DB)) + 1
             /\ Len(RowsOf(db_get_all_tasks(DB'), z, t)) = 1
             /\ Len(db_get_tasks_by_zone(DB', z)) = 1
             /\ Without(db_get_all_tasks(DB'), z, t) = db_get_all_tasks(DB)
             /\ <<z, 1>> \in db_count_tasks_by_zone(DB')
      ]_vars

\* the relational store held a task and has just stored the first task of
\* the new zone Garage
C16_Witness ==
    /\ use_sqlite
    /\ Called("add_task", "Garage", "Peinture")
    /\ ret_db = "True"
    /\ db_get_zones(DB) = Append(DefaultZoneNames, "Garage")
    /\ Len(db_get_all_tasks(DB)) = 2
    /\ Len(db_get_tasks_by_zone(DB, "Garage")) = 1

----------------------------------------------------------------------------
(* Claims about failures of the migration, checked under SpecMig *)

\* the fault makes a step of the transfer of the document fail
TransferStepFails(fault, doc) ==
    \/ fault.kind \in {"read", "reset"}
    \/ /\ fault.kind = "add"
       /\ fault.at <= Len(Items(doc))
    \/ /\ fault.kind = "schedule"
       /\ fault.at <= Len(Items(doc))
       /\ HasKey(Items(doc)[fault.at].tache, "date_debut")
       /\ HasKey(Items(doc)[fault.at].tache, "date_fin")

(* C17: the migration aborts on any failure.  When a step of the transfer   *)
(* fails for some task (open/json.load, reset_to_empty, add_task or         *)
(* schedule_task of that task), migrate_from_json returns False; it never   *)
(* returns True with a task of the file missing from the relational store.  *)
C17_MigrationAbortsOnFailure ==
    [][(call'.op = "migration.py" /\ ~config_use_sqlite(config))
       => /\ TransferStepFails(call'.args[1], file.doc) => ret_db' = "False"
          /\ ret_db' = "True" =>
                \A r \in Range(data_get_all_tasks(FileTasks)) :
                    Len(RowsOf(db_get_all_tasks(DB'), r[1], r[2])) = 1
      ]_vars

(* C18: on a successful migration the script writes use_sqlite=True to the  *)
(* flag file, creates a backup whose content is that of the data file, and  *)
(* leaves the data file in place with its content; and when the script ends *)
(* by reporting an error the flag file does not contain use_sqlite=True.    *)
C18_SuccessWritesFlagAndBackup ==
    [][(call'.op = "migration.py" /\ ~config_use_sqlite(config))
       => /\ report' = "reussie" =>
                /\ config' = "use_sqlite=True"
                /\ backup'.state = "ok"
                /\ backup'.doc = file.doc
                /\ file' = file
                /\ file'.state = "ok"
          /\ report' \in {"erreur", "echec", "introuvable"} => ~config_use_sqlite(config')
      ]_vars

(* C19: the migration transfers every zone of the file backend.  After     *)
(* migrate_from_json has returned True, every zone name of the data file,   *)
(* the zones without task included, is returned by get_zones() of the       *)
(* relational store.                                                        *)
C19_MigrationTransfersZones ==
    [][(call'.op = "migration.py" /\ ret_db' = "True")
       => \A z \in Range(data_get_zones(FileTasks)) : z \in Range(db_get_zones(DB'))
      ]_vars

\* a migration into a store that did not exist, of a file with one task in
\* Palier and three zones without task
C19_Witness ==
    /\ call.op = "migration.py"
    /\ call.args[1].kind = "none"
    /\ ret_db = "True"
    /\ db_get_zones(DB) = data_get_zones(FileTasks)
    /\ Len(db_get_zones(DB)) = 4
    /\ Len(db_get_tasks_by_zone(DB, "Palier")) = 1
    /\ Len(db_get_all_tasks(DB)) = 1
    /\ Len(data_get_tasks_by_zone(FileTasks, "Escalier")) = 0

----------------------------------------------------------------------------
(* Claims about the queries, checked under Spec *)

\* counts is a mapping whose keys are the zones of zoneList
CountsCover(counts, zoneList) ==
    /\ {p[1] : p \in counts} = Range(zoneList)
    /\ \A p, q \in counts : p[1] = q[1] => p = q

(* C20: in every reachable state and in both backends count_tasks_by_zone() *)
(* is a mapping whose keys are exactly the zones of get_zones(), the zones  *)
(* without task included with the count 0, and whose value for a zone is    *)
(* the number of tasks get_tasks_by_zone returns for it.                    *)
C20_CountsMatchZonesAndTasks ==
    /\ CountsCover(data_count_tasks_by_zone(TRAVAUX), data_get_zones(TRAVAUX))
    /\ \A p \in data_count_tasks_by_zone(TRAVAUX) :
          p[2] = Len(data_get_tasks_by_zone(TRAVAUX, p[1]))
    /\ CountsCover(db_count_tasks_by_zone(DB), db_get_zones(DB))
    /\ \A p \in db_count_tasks_by_zone(DB) :
          p[2] = Len(db_get_tasks_by_zone(DB, p[1]))
    /\ CountsCover(CountByZone, ZoneList)
    /\ \A p \in CountByZone : p[2] = Len(TasksByZone(p[1]))

\* the relational store with a task in Cuisine, a task in the added zone
\* Garage and no task in Palier
C20_Witness ==
    /\ use_sqlite
    /\ <<"Garage", 1>> \in CountByZone
    /\ <<"Cuisine", 1>> \in CountByZone
    /\ <<"Palier", 0>> \in CountByZone
    /\ Cardinality(CountByZone) = 5

----------------------------------------------------------------------------
(* The data file is lost or damaged between two runs of the process: it is  *)
(* deleted ("missing"), or it cannot be read or parsed any more ("corrupt", *)
(* the text it held is kept in doc).                                        *)

FileDamage(s) ==
    /\ file.state = "ok"
    /\ file' = [file EXCEPT !.state = s]
    /\ call' = Call("damage", "", "", <<s>>)
    /\ UNCHANGED <<config, use_sqlite, TRAVAUX, EMPTY_TRAVAUX, shared, zones, taches,
                   ret_data, ret_db, backup, report, served, TRAVAUX_2, confirm_reset, warned>>

NextLoad ==
    \/ \E z \in MigZonesIn, x \in MigTasksIn, p \in Priorites :
          Data_add_task(z, x.titre, p, 100, x.statut)
    \/ \E z \in MigZonesIn, x \in MigTasksIn, st \in Starts :
          Data_schedule_task(z, x.titre, st, x.custom_duration)
    \/ \E z \in MigZonesIn, x \in MigTasksIn, p \in Priorites :
          Db_add_task(z, x.titre, p, 100, x.statut)
    \/ \E s \in {"missing", "corrupt"} : FileDamage(s)
    \/ Restart

SpecLoad == Init /\ [][NextLoad]_vars

(* C21: load failure of the file backend.  When the data file is missing or *)
(* cannot be read or parsed at the start of the process, load_data leaves   *)
(* TRAVAUX equal to the four default zones, in their order, without any     *)
(* task, writes that structure to the data file at once, and does not       *)
(* raise.                                                                   *)
C21_LoadFailureFallsBackToDefaults ==
    [][(call'.op = "import" /\ file.state # "ok")
       => /\ TRAVAUX' = EMPTY_TRAVAUX_literal
          /\ data_get_zones(TRAVAUX') = DefaultZoneNames
          /\ Len(data_get_all_tasks(TRAVAUX')) = 0
          /\ file' = [state |-> "ok", doc |-> Serialize(EMPTY_TRAVAUX_literal)]
          /\ ret_data' = "None"
      ]_vars

\* a process that is not the first one (the relational store holds a task)
\* has started on a lost or damaged data file and fallen back
C21_Witness ==
    /\ call.op = "import"
    /\ shared
    /\ Len(taches) > 0
    /\ TRAVAUX = EMPTY_TRAVAUX_literal
    /\ file = [state |-> "ok", doc |-> Serialize(EMPTY_TRAVAUX_literal)]

----------------------------------------------------------------------------
(* Two processes of the file backend on the same data file.  Each has its   *)
(* own module data with its own global TRAVAUX, loaded once at import; the  *)
(* first process is the one of the preceding sections, the second one has   *)
(* loaded the file the first one created.                                   *)

\* a process reading the file again before it mutates the store
InMemoryStore_Reloads(T, f) == Deserialize(f.doc)

\* the dict an operation of a process works on: its global TRAVAUX, whatever
\* the data file holds by now
InMemoryStore(T, f) == T

P2Step(c, r) ==
    /\ TRAVAUX_2' = r.T
    /\ file' = IF r.saved THEN [state |-> "ok", doc |-> Serialize(r.T)] ELSE file
    /\ call' = c
    /\ ret_data' = r.ret
    /\ UNCHANGED <<config, use_sqlite, TRAVAUX, EMPTY_TRAVAUX, shared, zones, taches,
                   ret_db, backup, report, served, confirm_reset, warned>>

P2_add_task(zone, titre, priorite, duree_estimee, statut) ==
    LET r == data_add_task(InMemoryStore(TRAVAUX_2, file), zone, titre, priorite,
                           duree_estimee, statut)
    IN /\ r.ret = "True" => NbTasks(TRAVAUX_2) < MaxTasks
       /\ P2Step(Call("p2.add_task", zone, titre, <<>>), r)

P2_schedule_task(zone, task_title, start_date, custom_duration) ==
    P2Step(Call("p2.schedule_task", zone, task_title, <<start_date, custom_duration>>),
           data_schedule_task(InMemoryStore(TRAVAUX_2, file), zone, task_title,
                              start_date, custom_duration))

InitTwo == Init /\ ~use_sqlite

NextTwo ==
    \/ \E z \in MigZonesIn, x \in MigTasksIn, p \in Priorites :
          Data_add_task(z, x.titre, p, 100, x.statut)
    \/ \E z \in MigZonesIn, x \in MigTasksIn, p \in Priorites :
          P2_add_task(z, x.titre, p, 100, x.statut)
    \/ \E z \in MigZonesIn, x \in MigTasksIn, st \in Starts :
          P2_schedule_task(z, x.titre, st, x.custom_duration)
    \/ Restart

SpecTwo == InitTwo /\ [][NextTwo]_vars

\* the rows of the dict T for (zone, titre)
TasksIn(T, zone, titre) == RowsOf(data_get_all_tasks(T), zone, titre)

(* C22: the file backend is not safe under two writer processes.  A         *)
(* mutation of the second process that returns True overwrites the file     *)
(* with the snapshot of its own store: a task the second process does not   *)
(* hold and is not adding, such as one the first process added and saved    *)
(* after the second process had loaded the file, is absent from the file    *)
(* afterwards (last writer wins); the state of the witness is reachable.    *)
C22_LastWriterWins ==
    [][\A z \in MigZonesIn, t \in Titles :
          (call'.op \in {"p2.add_task", "p2.schedule_task"} /\ ret_data' = "True")
          => /\ file' = [state |-> "ok", doc |-> Serialize(TRAVAUX_2')]
             /\ (Len(TasksIn(TRAVAUX_2, z, t)) = 0 /\ ~(call'.zone = z /\ call'.titre = t))
                => Len(TasksIn(Deserialize(file'.doc), z, t)) = 0
      ]_vars

\* the lost update: the first process holds a task that its add_task stored
\* (every task of TRAVAUX got there by an add_task that returned True and
\* saved), and the file written by the add_task of the second process lacks it
C22_Witness ==
    /\ call.op = "p2.add_task"
    /\ ret_data = "True"
    /\ file.doc = Serialize(TRAVAUX_2)
    /\ \E z \in MigZonesIn, t \in Titles :
          /\ Len(TasksIn(TRAVAUX, z, t)) = 1
          /\ Len(TasksIn(TRAVAUX_2, z, t)) = 0
          /\ Len(TasksIn(Deserialize(file.doc), z, t)) = 0

----------------------------------------------------------------------------
(* Claims about the effect of the operations, checked under Spec *)

(* C23: in every state reached from the empty store by the contract         *)
(* operations, on either backend, every scheduled task ends at its start +  *)
(* its estimated duration, and scheduling it again with its stored start    *)
(* and stored duration gives the stored task again (same end).              *)
C23_EndIsStartPlusDuration ==
    /\ EndsAfterDuration(ScheduledTasks)
    /\ EndsAfterDuration(data_get_scheduled_tasks(TRAVAUX))
    /\ EndsAfterDuration(db_get_scheduled_tasks(DB))
    /\ \A r \in Range(data_get_scheduled_tasks(TRAVAUX)) :
          data_schedule_task(TRAVAUX, r[1], r[2], r[6][1], <<r[5]>>).T = TRAVAUX
    /\ \A r \in Range(db_get_scheduled_tasks(DB)) :
          db_schedule_task(DB, r[1], r[2], r[6][1], <<r[5]>>).db = DB

\* the relational store has just scheduled a task with a duration typed at
\* scheduling that differs from the one the task was added with
C23_Witness ==
    /\ use_sqlite
    /\ call.op = "schedule_task"
    /\ call.args = <<250, <<12>>>>
    /\ ret_db = "True"
    /\ \E r \in Range(ScheduledTasks) :
          r[1] = call.zone /\ r[2] = call.titre /\ r[5] = 12 /\ r[6] = <<250>> /\ r[7] = <<262>>
    /\ \E r \in Range(AllTasks) : r[5] = 100

\* the operations of the file backend that change the store
DataMutations ==
    {"add_task", "update_task_status", "schedule_task", "unschedule_task", "delete_task",
     "reset_to_empty"}

(* C24: file backend.  After every mutating operation that returns True the *)
(* data file is a snapshot of the whole in-memory store, so that a process  *)
(* started after it loads exactly the store the operation returned from; an *)
(* operation that returns False leaves the file as it was.                  *)
C24_FileIsSnapshotAfterMutation ==
    [][(~use_sqlite /\ call'.op \in DataMutations)
       => /\ ret_data' = "True" =>
                /\ file' = [state |-> "ok", doc |-> Serialize(TRAVAUX')]
                /\ load_data(file').T = TRAVAUX'
                /\ data_get_all_tasks(load_data(file').T) = data_get_all_tasks(TRAVAUX')
          /\ ret_data' = "False" => file' = file
      ]_vars

\* the file backend has just set the status of a scheduled task, and the
\* file holds the task with the new status and its dates
C24_Witness ==
    /\ ~use_sqlite
    /\ call.op = "update_task_status"
    /\ ret_data = "True"
    /\ file = [state |-> "ok", doc |-> Serialize(TRAVAUX)]
    /\ \E r \in Range(data_get_scheduled_tasks(load_data(file).T)) :
          r[1] = call.zone /\ r[2] = call.titre /\ r[3] = "Termine"

(* C25: init_db is idempotent.  Run on an initialised store it changes no   *)
(* zone and no task; it inserts the four default zones only when the zones  *)
(* table is empty, so a store whose zones table holds a zone gains none at  *)
(* a start of the process.                                                  *)
C25_InitDbIdempotent ==
    [][/\ (call'.op = "import" /\ use_sqlite' /\ Len(zones) > 0)
          => zones' = zones /\ taches' = taches
       /\ (call'.op = "import" /\ use_sqlite' /\ Len(zones) = 0)
          => zones' = DefaultZoneNames /\ taches' = taches
       /\ Len(zones') > 0 => init_db(DB') = DB'
       /\ init_db(init_db(DB')) = init_db(DB')
      ]_vars

\* a process has started on a relational store that holds the added zone
\* Garage and two tasks
C25_Witness ==
    /\ use_sqlite
    /\ call.op = "import"
    /\ zones = Append(DefaultZoneNames, "Garage")
    /\ Len(taches) = 2
    /\ Len(db_get_tasks_by_zone(DB, "Garage")) >= 1

----------------------------------------------------------------------------
(* Claims about the steps of the migration, checked under SpecMig *)

(* C26: when the flag file already contains use_sqlite=True, a run of the   *)
(* migration script changes nothing: the relational store is not reset and  *)
(* gets no task, the flag and the data file are as before and no backup is  *)
(* created.                                                                 *)
C26_AlreadyMigratedChangesNothing ==
    [][(call'.op = "migration.py" /\ config_use_sqlite(config))
       => /\ zones' = zones
          /\ taches' = taches
          /\ db_get_all_tasks(DB') = db_get_all_tasks(DB)
          /\ config' = config
          /\ file' = file
          /\ backup' = backup
          /\ report' = "deja_effectuee"
      ]_vars

\* the script has run again after a migration that stored two tasks, in an
\* environment in which the transfer would have failed at reset_to_empty
C26_Witness ==
    /\ call.op = "migration.py"
    /\ call.args[1].kind = "reset"
    /\ report = "deja_effectuee"
    /\ config = "use_sqlite=True"
    /\ Len(db_get_all_tasks(DB)) = 2
    /\ backup.state = "ok"

\* the row of the relational store is a task of the data file: same zone,
\* title, status, priority and duration, unscheduled or with the file's dates
FromFile(r) ==
    \E q \in Range(data_get_all_tasks(FileTasks)) :
        /\ Content(r) = Content(q)
        /\ (r[6] = NaT /\ r[7] = NaT) \/ (r[6] = q[6] /\ r[7] = q[7])

(* C27: order of the steps of migrate_from_json.  The relational store is   *)
(* cleared only after the file has been read and parsed: when the file      *)
(* cannot be opened or parsed the function returns False and every zone and *)
(* task of the store is as before the call; when it fails after the clear,  *)
(* none of the tasks the store held before the call remains (every row is a *)
(* task transferred from the file).                                         *)
C27_ClearOnlyAfterParse ==
    [][(call'.op = "migration.py" /\ ~config_use_sqlite(config))
       => /\ call'.args[1].kind = "read"
             => /\ ret_db' = "False"
                /\ DB' = init_db(DB)
                /\ taches' = taches
                /\ db_get_all_tasks(DB') = db_get_all_tasks(init_db(DB))
                /\ db_get_zones(DB') = db_get_zones(init_db(DB))
          /\ (ret_db' = "False" /\ call'.args[1].kind \notin {"read", "reset"})
             => \A r \in Range(db_get_all_tasks(DB')) : FromFile(r)
      ]_vars

\* the file could not be read and the store still holds the task in Garage
\* of the earlier session
C27_Witness ==
    /\ call.op = "migration.py"
    /\ call.args[1].kind = "read"
    /\ ret_db = "False"
    /\ report = "echec"
    /\ Len(db_get_tasks_by_zone(DB, "Garage")) = 1
    /\ Len(data_get_all_tasks(FileTasks)) = 2

----------------------------------------------------------------------------
(* Claims about what a mutation leaves alone, checked under Spec *)

(* C28: update_task_status(z, t, s) on an existing task returns true and    *)
(* changes only the status of task (z, t), to s: its priority, duration and *)
(* dates, the zones and their order, and every field of every other task (a *)
(* task with the same title in another zone included) are as before, in     *)
(* both backends.                                                           *)
C28_UpdateStatusChangesOnlyStatus ==
    [][\A z \in ZonesIn, t \in Titles, s \in Statuts :
          (Called("update_task_status", z, t)' /\ call'.args = <<s>> /\ Exists(z, t)) =>
             /\ Ret' = "True"
             /\ Len(AllTasks') = Len(AllTasks)
             /\ \A i \in 1..Len(AllTasks) :
                   AllTasks'[i] = IF AllTasks[i][1] = z /\ AllTasks[i][2] = t
                                  THEN [AllTasks[i] EXCEPT ![3] = s]
                                  ELSE AllTasks[i]
             /\ ZoneList' = ZoneList
             /\ CountByZone' = CountByZone
             /\ zones' = zones]_vars

\* the status of a scheduled task was changed while a task with the same
\* title in another zone keeps the other status
C28_Witness ==
    /\ call.op = "update_task_status"
    /\ Ret = "True"
    /\ Len(AllTasks) = 2
    /\ \E i, j \in 1..Len(AllTasks) :
          /\ AllTasks[i][1] = call.zone
          /\ AllTasks[i][2] = call.titre
          /\ AllTasks[i][3] = call.args[1]
          /\ AllTasks[i][6] # NaT
          /\ AllTasks[j][1] # call.zone
          /\ AllTasks[j][2] = call.titre
          /\ AllTasks[j][3] # call.args[1]

(* C29: zones after reset_to_empty.  File backend: the zone list is exactly *)
(* the four default zones in their default order, in memory and in the data *)
(* file, since the new store is built from EMPTY_TRAVAUX and not from the   *)
(* store held before.  Relational backend: the zones table, names and       *)
(* order, is as before the call and the tasks table is empty.               *)
C29_ZonesAfterReset ==
    [][call'.op = "reset_to_empty" =>
          /\ served' = "data" =>
                /\ ret_data' = "True"
                /\ data_get_zones(TRAVAUX') = DefaultZoneNames
                /\ data_get_zones(TRAVAUX') = data_get_zones(EMPTY_TRAVAUX)
                /\ data_get_zones(Deserialize(file'.doc)) = DefaultZoneNames
          /\ served' = "db" =>
                /\ ret_db' = "True"
                /\ zones' = zones
                /\ db_get_zones(DB') = db_get_zones(DB)
                /\ taches' = <<>>
                /\ \A c \in db_count_tasks_by_zone(DB') : c[2] = 0]_vars

\* reset_to_empty of the relational backend on a store to which add_task had
\* added the zone Garage: the zone is still the fifth one, no task is left
C29_Witness ==
    /\ call.op = "reset_to_empty"
    /\ served = "db"
    /\ ret_db = "True"
    /\ db_get_zones(DB) = Append(DefaultZoneNames, "Garage")
    /\ Len(db_get_all_tasks(DB)) = 0
    /\ data_get_zones(TRAVAUX) = DefaultZoneNames

----------------------------------------------------------------------------
(* The reset button of the administration panel (app.py, main).  The       *)
(* session state of the browser session outlives the reruns of the script   *)
(* and is lost with the process.                                            *)

\* if st.button("Reinitialiser toutes les donnees"): one click on the button
Reinitialiser_toutes_les_donnees ==
    IF confirm_reset
    THEN /\ IF config_use_sqlite(config) \/ use_sqlite
            THEN LET r == db_reset_to_empty(DB)
                 IN /\ zones' = r.db.zones
                    /\ taches' = r.db.taches
                    /\ ret_db' = r.ret
                    /\ served' = "db"
                    /\ UNCHANGED <<TRAVAUX, shared, file, ret_data>>
            ELSE LET r == data_reset_to_empty(EMPTY_TRAVAUX)
                 IN /\ TRAVAUX' = r.T
                    /\ shared' = TRUE
                    /\ file' = [state |-> "ok", doc |-> Serialize(r.T)]
                    /\ ret_data' = r.ret
                    /\ served' = "data"
                    /\ UNCHANGED <<zones, taches, ret_db>>
         /\ call' = Call("Reinitialiser", "", "", <<"reset_to_empty">>)
         /\ warned' = FALSE
         /\ UNCHANGED <<config, use_sqlite, EMPTY_TRAVAUX, backup, report, TRAVAUX_2,
                        confirm_reset>>
    ELSE /\ confirm_reset' = TRUE
         /\ warned' = TRUE
         /\ call' = Call("Reinitialiser", "", "", <<"warning">>)
         /\ UNCHANGED <<config, use_sqlite, TRAVAUX, EMPTY_TRAVAUX, shared, file, zones,
                        taches, ret_data, ret_db, backup, report, served, TRAVAUX_2>>

NextAdmin ==
    \/ \E z \in ZonesIn, t \in Titles, p \in Priorites, d \in Durees, s \in Statuts :
          Data_add_task(z, t, p, d, s)
    \/ \E z \in ZonesIn, t \in Titles, p \in Priorites, d \in Durees, s \in Statuts :
          Db_add_task(z, t, p, d, s)
    \/ Reinitialiser_toutes_les_donnees
    \/ Restart

SpecAdmin == Init /\ [][NextAdmin]_vars

(* C30: the reset of the administration panel needs two clicks.  Within a   *)
(* session every execution of reset_to_empty from the button follows a      *)
(* warning shown since the previous reset: a single click never wipes the   *)
(* data without a fresh warning, also after an earlier reset of the same    *)
(* session.                                                                 *)
C30_ResetNeedsFreshWarning ==
    [][(call'.op = "Reinitialiser" /\ call'.args = <<"reset_to_empty">>) => warned]_vars

====
